---- MODULE Spec2Model ----
(***************************************************************************)
(* Model of the command-line HTTP client of src/src/main.rs.               *)
(*                                                                         *)
(* Text is modelled as a sequence of bytes, one token per byte.  An ASCII  *)
(* byte is named by its character ("a", ":", "\r"), the NUL byte is "00",  *)
(* and a byte >= 0x80 is named by its two hex digits ("E9", "C3", "A9").   *)
(* A Rust String is its UTF-8 byte sequence; a Vec<u8> is a byte sequence. *)
(***************************************************************************)
EXTENDS Integers, Sequences, FiniteSets, TLC

(***************************************************************************)
(* Bounds of the model.                                                    *)
(***************************************************************************)
\* number of header lines a modelled response carries before the blank line
MaxLines == 2
\* number of bytes the peer sends after the header block
MaxBody == 6
\* number of option groups on a modelled command line
MaxGroups == 3

(***************************************************************************)
(* Byte strings.                                                           *)
(***************************************************************************)
CRLF == <<"\r", "\n">>
CRLFCRLF == <<"\r", "\n", "\r", "\n">>

Min(a, b) == IF a < b THEN a ELSE b

\* s[from..] with a zero-based byte offset, as a Rust slice
DropN(s, n) == SubSeq(s, n + 1, Len(s))
\* s[..n]
TakeN(s, n) == SubSeq(s, 1, n)

\* str::starts_with
StartsWith(s, p) == Len(p) <= Len(s) /\ SubSeq(s, 1, Len(p)) = p
\* str::ends_with
EndsWith(s, p) == Len(p) <= Len(s) /\ SubSeq(s, Len(s) - Len(p) + 1, Len(s)) = p

\* str::find: the zero-based offset of the first occurrence of p in s, -1 for None
Find(s, p) ==
  LET hits == {k \in 0..(Len(s) - Len(p)) : SubSeq(s, k + 1, k + Len(p)) = p}
  IN IF hits = {} THEN -1 ELSE CHOOSE k \in hits : \A j \in hits : k <= j

RECURSIVE Concat(_)
\* the concatenation of a sequence of byte strings
Concat(ss) == IF ss = <<>> THEN <<>> ELSE Head(ss) \o Concat(Tail(ss))

UpperAZ == <<"A", "B", "C", "D", "E", "F", "G", "H", "I", "J", "K", "L", "M", "N", "O", "P", "Q", "R", "S", "T", "U", "V", "W", "X", "Y", "Z">>
LowerAZ == <<"a", "b", "c", "d", "e", "f", "g", "h", "i", "j", "k", "l", "m", "n", "o", "p", "q", "r", "s", "t", "u", "v", "w", "x", "y", "z">>
Digits == <<"0", "1", "2", "3", "4", "5", "6", "7", "8", "9">>

\* str::to_lowercase on the bytes the model draws: ASCII letters are folded,
\* every other byte (digits, punctuation, the UTF-8 bytes of U+00E9) is kept
to_lowercase(s) ==
  [k \in 1..Len(s) |->
     IF \E a \in 1..26 : UpperAZ[a] = s[k]
     THEN LowerAZ[CHOOSE a \in 1..26 : UpperAZ[a] = s[k]]
     ELSE s[k]]

\* the characters str::trim removes (White_Space) among the modelled bytes
WhiteSpace == {" ", "\t", "\r", "\n"}

RECURSIVE TrimStart(_)
TrimStart(s) ==
  IF s # <<>> /\ Head(s) \in WhiteSpace THEN TrimStart(Tail(s)) ELSE s

RECURSIVE TrimEnd(_)
TrimEnd(s) ==
  IF s # <<>> /\ s[Len(s)] \in WhiteSpace THEN TrimEnd(SubSeq(s, 1, Len(s) - 1)) ELSE s

\* str::trim
trim(s) == TrimEnd(TrimStart(s))

IsDigit(c) == \E d \in 1..10 : Digits[d] = c
DigitVal(c) == (CHOOSE d \in 1..10 : Digits[d] = c) - 1

RECURSIVE DecValue(_, _, _)
\* the value of a digit string, accumulated left to right as from_str_radix does;
\* once the accumulator passes max it stays there (PosOverflow)
DecValue(ds, acc, max) ==
  IF ds = <<>> THEN acc
  ELSE IF acc > max THEN acc
  ELSE DecValue(Tail(ds), acc * 10 + DigitVal(Head(ds)), max)

\* str::parse for an unsigned integer type with maximum max: an optional
\* leading "+", then at least one decimal digit and nothing else; -1 for Err
ParseUnsigned(s, max) ==
  LET ds == IF s # <<>> /\ Head(s) = "+" THEN Tail(s) ELSE s
  IN IF ds = <<>> THEN -1
     ELSE IF \E k \in 1..Len(ds) : ~IsDigit(ds[k]) THEN -1
     ELSE LET v == DecValue(ds, 0, max) IN IF v > max THEN -1 ELSE v

\* u16::MAX, the range of port.parse::<u16>()
U16Max == 65535
\* the largest value the digit strings drawn for a Content-Length reach is far
\* below usize::MAX, so parse::<usize>() is limited only by this model cap
UsizeModelMax == 1000000

RECURSIVE ToDec(_)
\* format!("{}", n) for an unsigned n
ToDec(n) == IF n < 10 THEN <<Digits[n + 1]>> ELSE ToDec(n \div 10) \o <<Digits[(n % 10) + 1]>>

(***************************************************************************)
(* parse_url (src/src/main.rs 125-166).                                    *)
(***************************************************************************)
HttpPrefix == <<"h", "t", "t", "p", ":", "/", "/">>
HttpsPrefix == <<"h", "t", "t", "p", "s", ":", "/", "/">>

\* Err(..) of parse_url
UrlErr == [ok |-> FALSE, host |-> <<>>, port |-> <<>>, path_query |-> <<>>]

\* a variant whose default port is "80" for either scheme
parse_url_DefaultPort80(u) ==
  IF ~StartsWith(u, HttpPrefix) /\ ~StartsWith(u, HttpsPrefix) THEN UrlErr
  ELSE
    LET url_without_protocol ==
          IF StartsWith(u, HttpPrefix) THEN DropN(u, 7) ELSE DropN(u, 8)
        hash_pos == Find(url_without_protocol, <<"#">>)
        url_without_fragment ==
          IF hash_pos >= 0 THEN TakeN(url_without_protocol, hash_pos)
          ELSE url_without_protocol
        slash_pos == Find(url_without_fragment, <<"/">>)
        host_port ==
          IF slash_pos >= 0 THEN TakeN(url_without_fragment, slash_pos)
          ELSE url_without_fragment
        pq ==
          IF slash_pos >= 0 THEN DropN(url_without_fragment, slash_pos)
          ELSE <<"/">>
        colon_pos == Find(host_port, <<":">>)
    IN IF colon_pos >= 0
       THEN IF ParseUnsigned(DropN(host_port, colon_pos + 1), U16Max) = -1
            THEN UrlErr
            ELSE [ok |-> TRUE, host |-> TakeN(host_port, colon_pos),
                  port |-> DropN(host_port, colon_pos + 1), path_query |-> pq]
       ELSE [ok |-> TRUE, host |-> host_port, port |-> <<"8", "0">>,
             path_query |-> pq]

\* a variant that leaves the fragment in place
parse_url_KeepFragment(u) ==
  IF ~StartsWith(u, HttpPrefix) /\ ~StartsWith(u, HttpsPrefix) THEN UrlErr
  ELSE
    LET url_without_protocol ==
          IF StartsWith(u, HttpPrefix) THEN DropN(u, 7) ELSE DropN(u, 8)
        url_without_fragment == url_without_protocol
        slash_pos == Find(url_without_fragment, <<"/">>)
        host_port ==
          IF slash_pos >= 0 THEN TakeN(url_without_fragment, slash_pos)
          ELSE url_without_fragment
        pq ==
          IF slash_pos >= 0 THEN DropN(url_without_fragment, slash_pos)
          ELSE <<"/">>
        colon_pos == Find(host_port, <<":">>)
    IN IF colon_pos >= 0
       THEN IF ParseUnsigned(DropN(host_port, colon_pos + 1), U16Max) = -1
            THEN UrlErr
            ELSE [ok |-> TRUE, host |-> TakeN(host_port, colon_pos),
                  port |-> DropN(host_port, colon_pos + 1), path_query |-> pq]
       ELSE [ok |-> TRUE, host |-> host_port,
             port |-> IF StartsWith(u, HttpsPrefix) THEN <<"4", "4", "3">>
                      ELSE <<"8", "0">>,
             path_query |-> pq]

\* Ok((host, port, path_query)) or Err; host, port and path_query are Strings
parse_url(u) ==
  IF ~StartsWith(u, HttpPrefix) /\ ~StartsWith(u, HttpsPrefix) THEN UrlErr
  ELSE
    LET url_without_protocol ==
          IF StartsWith(u, HttpPrefix) THEN DropN(u, 7) ELSE DropN(u, 8)
        hash_pos == Find(url_without_protocol, <<"#">>)
        url_without_fragment ==
          IF hash_pos >= 0 THEN TakeN(url_without_protocol, hash_pos)
          ELSE url_without_protocol
        slash_pos == Find(url_without_fragment, <<"/">>)
        host_port ==
          IF slash_pos >= 0 THEN TakeN(url_without_fragment, slash_pos)
          ELSE url_without_fragment
        pq ==
          IF slash_pos >= 0 THEN DropN(url_without_fragment, slash_pos)
          ELSE <<"/">>
        colon_pos == Find(host_port, <<":">>)
    IN IF colon_pos >= 0
       THEN IF ParseUnsigned(DropN(host_port, colon_pos + 1), U16Max) = -1
            THEN UrlErr
            ELSE [ok |-> TRUE, host |-> TakeN(host_port, colon_pos),
                  port |-> DropN(host_port, colon_pos + 1), path_query |-> pq]
       ELSE [ok |-> TRUE, host |-> host_port,
             port |-> IF StartsWith(u, HttpsPrefix) THEN <<"4", "4", "3">>
                      ELSE <<"8", "0">>,
             path_query |-> pq]

(***************************************************************************)
(* parse_content_length (src/src/main.rs 311-322).                         *)
(***************************************************************************)
RECURSIVE lines(_)
\* str::lines: split at "\n"; a line that ended in "\n" also loses one "\r"
\* before it; an empty remainder after the last "\n" is no line
lines(s) ==
  IF s = <<>> THEN <<>>
  ELSE LET nl == Find(s, <<"\n">>)
       IN IF nl = -1 THEN <<s>>
          ELSE LET raw == TakeN(s, nl)
                   line == IF raw # <<>> /\ raw[Len(raw)] = "\r"
                           THEN TakeN(raw, Len(raw) - 1) ELSE raw
               IN <<line>> \o lines(DropN(s, nl + 1))

ContentLengthPrefix == <<"c", "o", "n", "t", "e", "n", "t", "-", "l", "e", "n", "g", "t", "h", ":">>

\* line.split(':').nth(1) of a line that holds a ':': the text between its
\* first ':' and its second ':' (or its end)
SplitColonNth1(line) ==
  LET rest == DropN(line, Find(line, <<":">>) + 1)
      c2 == Find(rest, <<":">>)
  IN IF c2 = -1 THEN rest ELSE TakeN(rest, c2)

\* the Option<usize> one line yields inside the loop: its length, or -1 when
\* the loop goes on to the next line
LineLength(line) ==
  IF StartsWith(to_lowercase(line), ContentLengthPrefix)
  THEN ParseUnsigned(trim(SplitColonNth1(line)), UsizeModelMax)
  ELSE -1

RECURSIVE ScanLengthLines(_)
\* the for loop of parse_content_length: returns at the first line that yields
\* a length, None (-1) when no line does
ScanLengthLines(ls) ==
  IF ls = <<>> THEN -1
  ELSE IF LineLength(Head(ls)) >= 0 THEN LineLength(Head(ls))
  ELSE ScanLengthLines(Tail(ls))

\* Option<usize>: Some(n) is n, None is -1
parse_content_length(hs) == ScanLengthLines(lines(hs))

(***************************************************************************)
(* Byte/char conversions of send_http_request.                             *)
(***************************************************************************)
\* `buffer[0] as char` pushed onto a String (line 251): the byte becomes the
\* code point of the same number, stored as UTF-8: one byte below 0x80, two
\* bytes from 0x80 on (0xE9 is U+00E9, stored as C3 A9)
PushByteAsChar(b) == IF b = "E9" THEN <<"C3", "A9">> ELSE <<b>>

\* U+FFFD in UTF-8
Replacement == <<"EF", "BF", "BD">>

RECURSIVE from_utf8_lossy(_)
\* String::from_utf8_lossy (line 290) on the bytes the model can assemble:
\* ASCII bytes and the pair C3 A9 are valid; a byte >= 0x80 that starts no
\* valid sequence is replaced by U+FFFD
from_utf8_lossy(bs) ==
  IF bs = <<>> THEN <<>>
  ELSE IF Len(bs) >= 2 /\ bs[1] = "C3" /\ bs[2] = "A9"
       THEN <<"C3", "A9">> \o from_utf8_lossy(DropN(bs, 2))
  ELSE IF Head(bs) \in {"E9", "C3", "A9"}
       THEN Replacement \o from_utf8_lossy(Tail(bs))
  ELSE <<Head(bs)>> \o from_utf8_lossy(Tail(bs))

(***************************************************************************)
(* Request construction (src/src/main.rs 203-234).                         *)
(***************************************************************************)
\* lines 207-211: the text after "Host: "
HostHeader(h, p) ==
  IF p = <<"8", "0">> \/ p = <<"4", "4", "3">> THEN h ELSE h \o <<":">> \o p

\* lines 219-221: every custom header followed by CRLF, in order
CustomHeaderLines(hs) == Concat([k \in 1..Len(hs) |-> hs[k] \o CRLF])

\* a variant that writes the Content-Length line for an empty body too
ContentLengthLine_Always(d) ==
  <<"C", "o", "n", "t", "e", "n", "t", "-", "L", "e", "n", "g", "t", "h", ":", " ">>
  \o ToDec(Len(d)) \o CRLF

\* lines 224-226
ContentLengthLine(d) ==
  IF d # <<>>
  THEN <<"C", "o", "n", "t", "e", "n", "t", "-", "L", "e", "n", "g", "t", "h", ":", " ">>
       \o ToDec(Len(d)) \o CRLF
  ELSE <<>>

\* the String `request` when it is handed to write_all
BuildRequest(m, h, p, pq, d, hs) ==
  m \o <<" ">> \o pq \o <<" ", "H", "T", "T", "P", "/", "1", ".", "1", "\r", "\n">>
  \o <<"H", "o", "s", "t", ":", " ">> \o HostHeader(h, p) \o CRLF
  \o <<"U", "s", "e", "r", "-", "A", "g", "e", "n", "t", ":", " ", "c", "u", "r", "l", "/", "1", ".", "0", "\r", "\n">>
  \o <<"A", "c", "c", "e", "p", "t", ":", " ", "*", "/", "*", "\r", "\n">>
  \o CustomHeaderLines(hs)
  \o ContentLengthLine(d)
  \o CRLF
  \o (IF d # <<>> THEN d ELSE <<>>)

(***************************************************************************)
(* State.                                                                  *)
(***************************************************************************)
VARIABLES
  \* the environment of one run: the command line after the program name,
  \* the bytes the peer sends on the connection, whether it then closes
  args, peer, peer_closes,
  \* the position of the run in main / send_http_request
  pc,
  \* locals of main (lines 11-19, 92, 101)
  i, show_help, headers, method, data, include_headers, url, method_specified,
  host, port, path_query, ip,
  \* locals of send_http_request (lines 245, 263, 267, 270)
  response_header, content_length, response_body, total_read,
  \* what the run has done to the outside: the bytes written to the stream,
  \* the number of bytes taken from the stream, standard output, the exit
  \* status, and the external operations performed so far
  wire, rpos, out, exit, did,
  \* the failure diagnostics written to the error stream (the eprintln! of
  \* lines 32, 42, 51, 61, 86, 95, 104, 110, 119), one token per message; the
  \* progress log that shares the stream is left out
  diag

envVars == <<args, peer, peer_closes>>
argVars == <<i, show_help, headers, method, data, include_headers, url, method_specified>>
urlVars == <<host, port, path_query>>
respVars == <<response_header, content_length, response_body, total_read>>
vars == <<args, peer, peer_closes, pc, i, show_help, headers, method, data,
          include_headers, url, method_specified, host, port, path_query, ip,
          response_header, content_length, response_body, total_read,
          wire, rpos, out, exit, did, diag>>

GET == <<"G", "E", "T">>
POST == <<"P", "O", "S", "T">>

\* the text print_help writes (lines 325-334), as one token
Usage == <<"<usage>">>

\* the state after construction for a given environment
InitWith(a, p, c) ==
  /\ args = a /\ peer = p /\ peer_closes = c
  /\ pc = "args"
  /\ i = 1 /\ show_help = FALSE /\ headers = <<>> /\ method = GET
  /\ data = <<>> /\ include_headers = FALSE /\ url = <<>>
  /\ method_specified = FALSE
  /\ host = <<>> /\ port = <<>> /\ path_query = <<>> /\ ip = <<>>
  /\ response_header = <<>> /\ content_length = -1 /\ response_body = <<>>
  /\ total_read = 0
  /\ wire = <<>> /\ rpos = 0 /\ out = <<>> /\ exit = "running" /\ did = {}
  /\ diag = <<>>

\* main returns: the process ends with the given status and its locals are gone
Return(status) ==
  /\ pc' = "done" /\ exit' = status
  /\ i' = 1 /\ show_help' = FALSE /\ headers' = <<>> /\ method' = GET
  /\ data' = <<>> /\ include_headers' = FALSE /\ url' = <<>>
  /\ method_specified' = FALSE
  /\ host' = <<>> /\ port' = <<>> /\ path_query' = <<>> /\ ip' = <<>>
  /\ response_header' = <<>> /\ content_length' = -1 /\ response_body' = <<>>
  /\ total_read' = 0

\* a failure: its diagnostic goes to the error stream and main returns Err
Fail(msg) == diag' = Append(diag, msg) /\ Return("failure")

(***************************************************************************)
(* main: the argument loop (lines 19-71), one iteration per step.          *)
(***************************************************************************)
ArgHelp == <<"-", "h">>
ArgHeader == <<"-", "H">>
ArgMethod == <<"-", "X">>
ArgData == <<"-", "d">>
ArgInclude == <<"-", "i">>

ScanArg ==
  /\ pc = "args" /\ i <= Len(args)
  /\ LET arg == args[i]
         has_value == i + 1 <= Len(args)
     IN IF arg \in {ArgHeader, ArgMethod, ArgData} /\ ~has_value
        THEN Fail("option_needs_value") /\ UNCHANGED <<envVars, wire, rpos, out, did>>
        ELSE IF ~(arg \in {ArgHelp, ArgHeader, ArgMethod, ArgData, ArgInclude})
                /\ StartsWith(arg, <<"-">>)
        THEN Fail("unsupported_option") /\ UNCHANGED <<envVars, wire, rpos, out, did>>
        ELSE
          /\ show_help' = IF arg = ArgHelp THEN TRUE ELSE show_help
          /\ headers' = IF arg = ArgHeader THEN Append(headers, args[i + 1]) ELSE headers
          /\ method' = IF arg = ArgMethod THEN args[i + 1] ELSE method
          /\ method_specified' = IF arg = ArgMethod THEN TRUE ELSE method_specified
          /\ data' = IF arg = ArgData THEN args[i + 1] ELSE data
          /\ include_headers' = IF arg = ArgInclude THEN TRUE ELSE include_headers
          /\ url' = IF arg \in {ArgHelp, ArgHeader, ArgMethod, ArgData, ArgInclude}
                    THEN url ELSE arg
          /\ i' = IF arg \in {ArgHeader, ArgMethod, ArgData} THEN i + 2 ELSE i + 1
          /\ UNCHANGED <<envVars, pc, urlVars, ip, respVars, wire, rpos, out, exit, diag, did>>

(***************************************************************************)
(* main after the loop (lines 73-89): the method default, help, missing    *)
(* URL.                                                                    *)
(***************************************************************************)
\* a variant that lets the presence of data override an explicit -X
EffectiveMethod_DataWins(m, d, specified) == IF d # <<>> THEN POST ELSE m

\* lines 74-76
EffectiveMethod(m, d, specified) == IF d # <<>> /\ ~specified THEN POST ELSE m

\* lines 73-76, reached when the loop condition fails
DefaultMethod ==
  /\ pc = "args" /\ i > Len(args)
  /\ method' = EffectiveMethod(method, data, method_specified)
  /\ pc' = "parsed"
  /\ UNCHANGED <<envVars, i, show_help, headers, data, include_headers, url,
                 method_specified, urlVars, ip, respVars, wire, rpos, out, exit, diag, did>>

\* a variant that looks for the URL before it looks at show_help
CheckArgs_UrlFirst ==
  /\ pc = "parsed"
  /\ IF url = <<>>
     THEN /\ out' = out \o Usage
          /\ Fail("no_url")
          /\ UNCHANGED <<envVars, wire, rpos, did>>
     ELSE IF show_help
     THEN /\ out' = out \o Usage
          /\ Return("success") /\ UNCHANGED diag
          /\ UNCHANGED <<envVars, wire, rpos, did>>
     ELSE /\ pc' = "url"
          /\ UNCHANGED <<envVars, argVars, urlVars, ip, respVars, wire, rpos, out,
                         exit, diag, did>>

\* lines 78-89
CheckArgs ==
  /\ pc = "parsed"
  /\ IF show_help
     THEN /\ out' = out \o Usage
          /\ Return("success") /\ UNCHANGED diag
          /\ UNCHANGED <<envVars, wire, rpos, did>>
     ELSE IF url = <<>>
     THEN /\ out' = out \o Usage
          /\ Fail("no_url")
          /\ UNCHANGED <<envVars, wire, rpos, did>>
     ELSE /\ pc' = "url"
          /\ UNCHANGED <<envVars, argVars, urlVars, ip, respVars, wire, rpos, out,
                         exit, diag, did>>

(***************************************************************************)
(* main: URL parsing (lines 91-98), name resolution (100-113).             *)
(***************************************************************************)
\* a variant that takes a URL without a scheme for an http URL
ParseUrl_SchemeOptional ==
  /\ pc = "url"
  /\ did' = did \cup {"parse_url"}
  /\ LET r == parse_url(IF StartsWith(url, HttpPrefix) \/ StartsWith(url, HttpsPrefix)
                        THEN url ELSE HttpPrefix \o url)
     IN IF r.ok
        THEN /\ host' = r.host /\ port' = r.port /\ path_query' = r.path_query
             /\ pc' = "dns"
             /\ UNCHANGED <<envVars, argVars, ip, respVars, wire, rpos, out, exit, diag>>
        ELSE Fail("url") /\ UNCHANGED <<envVars, wire, rpos, out>>

ParseUrl ==
  /\ pc = "url"
  /\ did' = did \cup {"parse_url"}
  /\ LET r == parse_url(url)
     IN IF r.ok
        THEN /\ host' = r.host /\ port' = r.port /\ path_query' = r.path_query
             /\ pc' = "dns"
             /\ UNCHANGED <<envVars, argVars, ip, respVars, wire, rpos, out, exit, diag>>
        ELSE Fail("url") /\ UNCHANGED <<envVars, wire, rpos, out>>

\* what resolve_domain (lines 168-184) can return: Err, or Ok with the
\* addresses the resolver found
ResolveOutcomes ==
  { [ok |-> FALSE, ips |-> <<>>],
    [ok |-> TRUE, ips |-> <<>>],
    [ok |-> TRUE, ips |-> <<"ip1">>],
    [ok |-> TRUE, ips |-> <<"ip1", "ip2">>] }

\* a variant that reports an empty resolver result and carries on
Resolve_NoReturnOnEmpty ==
  /\ pc = "dns"
  /\ did' = did \cup {"resolve"}
  /\ \E r \in ResolveOutcomes :
       IF r.ok
       THEN /\ ip' = IF r.ips # <<>> THEN r.ips[1] ELSE <<>>
            /\ diag' = IF r.ips # <<>> THEN diag ELSE Append(diag, "dns_empty")
            /\ pc' = "connect"
            /\ UNCHANGED <<envVars, argVars, urlVars, respVars, wire, rpos, out, exit>>
       ELSE Fail("dns_error") /\ UNCHANGED <<envVars, wire, rpos, out>>

Resolve ==
  /\ pc = "dns"
  /\ did' = did \cup {"resolve"}
  /\ \E r \in ResolveOutcomes :
       IF r.ok /\ r.ips # <<>>
       THEN /\ ip' = r.ips[1]
            /\ pc' = "connect"
            /\ UNCHANGED <<envVars, argVars, urlVars, respVars, wire, rpos, out, exit, diag>>
       ELSE Fail(IF r.ok THEN "dns_empty" ELSE "dns_error")
            /\ UNCHANGED <<envVars, wire, rpos, out>>

(***************************************************************************)
(* send_http_request: connect (196-201), build and write (203-242).        *)
(***************************************************************************)
Connect ==
  /\ pc = "connect"
  /\ did' = did \cup {"connect"}
  /\ \E connected \in BOOLEAN :
       IF connected
       THEN /\ pc' = "write"
            /\ UNCHANGED <<envVars, argVars, urlVars, ip, respVars, wire, rpos, out, exit, diag>>
       ELSE Fail("connect") /\ UNCHANGED <<envVars, wire, rpos, out>>

\* a variant that takes a short write for a complete one (write, not write_all)
WriteRequest_ShortWriteGoesOn ==
  /\ pc = "write"
  /\ did' = did \cup {"write"}
  /\ LET request == BuildRequest(method, host, port, path_query, data, headers)
     IN \E n \in 0..Len(request) :
          /\ wire' = wire \o TakeN(request, n)
          /\ IF n > 0
             THEN /\ pc' = "hdr"
                  /\ UNCHANGED <<envVars, argVars, urlVars, ip, respVars, rpos, out, exit, diag>>
             ELSE Fail("write") /\ UNCHANGED <<envVars, rpos, out>>

\* write_all either writes the whole request or fails after a proper prefix
WriteRequest ==
  /\ pc = "write"
  /\ did' = did \cup {"write"}
  /\ LET request == BuildRequest(method, host, port, path_query, data, headers)
     IN \E n \in 0..Len(request) :
          /\ wire' = wire \o TakeN(request, n)
          /\ IF n = Len(request)
             THEN /\ pc' = "hdr"
                  /\ UNCHANGED <<envVars, argVars, urlVars, ip, respVars, rpos, out, exit, diag>>
             ELSE Fail("write") /\ UNCHANGED <<envVars, rpos, out>>

(***************************************************************************)
(* send_http_request: reading the response (244-285).                      *)
(***************************************************************************)
\* what stream.read on a buffer of n > 0 bytes can return: Ok(k) for
\* 1 <= k <= n while the peer has bytes left, Ok(0) once the peer has sent
\* everything and closed, Err (-1) when the connection breaks instead of
\* delivering or closing; no timeout is set on the stream (line 197), so the
\* call blocks, returning nothing, while the peer is silent and open
ReadResults(n) ==
  IF rpos < Len(peer) THEN {-1} \cup 1..Min(n, Len(peer) - rpos)
  ELSE IF peer_closes THEN {-1, 0} ELSE {}

\* lines 247-259: one iteration of the header loop, a one-byte read
ReadHeader ==
  /\ pc = "hdr"
  /\ did' = did \cup {"read"}
  /\ \E r \in ReadResults(1) :
       IF r = -1
       THEN Fail("read_header") /\ UNCHANGED <<envVars, wire, rpos, out>>
       ELSE IF r = 0
       THEN /\ pc' = "len"
            /\ UNCHANGED <<envVars, argVars, urlVars, ip, respVars, wire, rpos, out, exit, diag>>
       ELSE /\ response_header' = response_header \o PushByteAsChar(peer[rpos + 1])
            /\ rpos' = rpos + 1
            /\ pc' = IF EndsWith(response_header', CRLFCRLF) THEN "len" ELSE "hdr"
            /\ UNCHANGED <<envVars, argVars, urlVars, ip, content_length,
                           response_body, total_read, wire, out, exit, diag>>

\* Vec::resize(length, 0) on the empty vector (line 269)
ZeroFilled(length) == [k \in 1..length |-> "00"]

\* a variant that reads every body to the end of the stream, declared length
\* or not
ParseContentLength_AlwaysToEnd ==
  /\ pc = "len"
  /\ content_length' = parse_content_length(response_header)
  /\ response_body' = <<>>
  /\ pc' = "eof"
  /\ total_read' = 0
  /\ UNCHANGED <<envVars, argVars, urlVars, ip, response_header, wire, rpos, out,
                 exit, diag, did>>

\* lines 262-270, 279-281: the declared length, and the body buffer
ParseContentLength ==
  /\ pc = "len"
  /\ content_length' = parse_content_length(response_header)
  /\ IF content_length' >= 0
     THEN /\ response_body' = ZeroFilled(content_length')
          /\ pc' = IF 0 < content_length' THEN "body" ELSE "output"
     ELSE /\ response_body' = <<>>
          /\ pc' = "eof"
  /\ total_read' = 0
  /\ UNCHANGED <<envVars, argVars, urlVars, ip, response_header, wire, rpos, out,
                 exit, diag, did>>

\* a variant that reads into response_body[..] instead of response_body[total_read..]
FilledFrom_Start(body, at, n) ==
  [k \in 1..Len(body) |-> IF k <= n THEN peer[rpos + k] ELSE body[k]]

\* the buffer after a read of n bytes into response_body[total_read..]
FilledFrom(body, at, n) ==
  [k \in 1..Len(body) |->
     IF at < k /\ k <= at + n THEN peer[rpos + (k - at)] ELSE body[k]]

\* a variant that prints what it holds when a body read fails
ReadBody_PrintsOnError ==
  /\ pc = "body"
  /\ \E r \in ReadResults(content_length - total_read) :
       IF r = -1
       THEN /\ out' = out \o response_header \o TakeN(response_body, total_read)
            /\ Fail("read_body") /\ UNCHANGED <<envVars, wire, rpos, did>>
       ELSE IF r = 0
       THEN /\ pc' = "output"
            /\ UNCHANGED <<envVars, argVars, urlVars, ip, respVars, wire, rpos, out,
                           exit, diag, did>>
       ELSE /\ response_body' = FilledFrom(response_body, total_read, r)
            /\ total_read' = total_read + r
            /\ rpos' = rpos + r
            /\ pc' = IF total_read' < content_length THEN "body" ELSE "output"
            /\ UNCHANGED <<envVars, argVars, urlVars, ip, response_header,
                           content_length, wire, out, exit, diag, did>>

\* lines 271-277: one iteration of the length-delimited loop
ReadBody ==
  /\ pc = "body"
  /\ \E r \in ReadResults(content_length - total_read) :
       IF r = -1
       THEN Fail("read_body") /\ UNCHANGED <<envVars, wire, rpos, out, did>>
       ELSE IF r = 0
       THEN /\ pc' = "output"
            /\ UNCHANGED <<envVars, argVars, urlVars, ip, respVars, wire, rpos, out,
                           exit, diag, did>>
       ELSE /\ response_body' = FilledFrom(response_body, total_read, r)
            /\ total_read' = total_read + r
            /\ rpos' = rpos + r
            /\ pc' = IF total_read' < content_length THEN "body" ELSE "output"
            /\ UNCHANGED <<envVars, argVars, urlVars, ip, response_header,
                           content_length, wire, out, exit, diag, did>>

\* a variant that takes the first read for the whole body (read, not read_to_end)
ReadToEnd_OneRead ==
  /\ pc = "eof"
  /\ \E r \in ReadResults(Len(peer) + 1) :
       IF r = -1
       THEN Fail("read_body") /\ UNCHANGED <<envVars, wire, rpos, out, did>>
       ELSE /\ response_body' = response_body \o SubSeq(peer, rpos + 1, rpos + r)
            /\ rpos' = rpos + r
            /\ pc' = "output"
            /\ UNCHANGED <<envVars, argVars, urlVars, ip, response_header,
                           content_length, total_read, wire, out, exit, diag, did>>

\* line 282: read_to_end, one read of its loop per step
ReadToEnd ==
  /\ pc = "eof"
  /\ \E r \in ReadResults(Len(peer) + 1) :
       IF r = -1
       THEN Fail("read_body") /\ UNCHANGED <<envVars, wire, rpos, out, did>>
       ELSE IF r = 0
       THEN /\ pc' = "output"
            /\ UNCHANGED <<envVars, argVars, urlVars, ip, respVars, wire, rpos, out,
                           exit, diag, did>>
       ELSE /\ response_body' = response_body \o SubSeq(peer, rpos + 1, rpos + r)
            /\ rpos' = rpos + r
            /\ UNCHANGED <<envVars, pc, argVars, urlVars, ip, response_header,
                           content_length, total_read, wire, out, exit, diag, did>>

(***************************************************************************)
(* send_http_request: output (287-307).                                    *)
(***************************************************************************)
\* a variant that splits at the last CRLFCRLF (rfind) instead of the first
Printed_LastTerminator(response_str, with_headers) ==
  LET at == {k \in 0..(Len(response_str) - 4) :
               SubSeq(response_str, k + 1, k + 4) = CRLFCRLF}
  IN IF with_headers \/ at = {} THEN response_str
     ELSE DropN(response_str, (CHOOSE k \in at : \A j \in at : j <= k) + 4)

\* what is printed for a response String
Printed(response_str, with_headers) ==
  IF with_headers THEN response_str
  ELSE IF Find(response_str, CRLFCRLF) >= 0
       THEN DropN(response_str, Find(response_str, CRLFCRLF) + 4)
       ELSE response_str

Output ==
  /\ pc = "output"
  /\ out' = out \o Printed(from_utf8_lossy(response_header \o response_body),
                           include_headers)
  /\ Return("success") /\ UNCHANGED diag
  /\ UNCHANGED <<envVars, wire, rpos, did>>

Next ==
  \/ ScanArg
  \/ DefaultMethod
  \/ CheckArgs
  \/ ParseUrl
  \/ Resolve
  \/ Connect
  \/ WriteRequest
  \/ ReadHeader
  \/ ParseContentLength
  \/ ReadBody
  \/ ReadToEnd
  \/ Output

(***************************************************************************)
(* Environments drawn for the runs.                                        *)
(***************************************************************************)
\* every sequence of at most n elements of S
SeqsUpTo(S, n) == UNION {[1..k -> S] : k \in 0..n}

PUT == <<"P", "U", "T">>
DELETE == <<"D", "E", "L", "E", "T", "E">>
PlainUrl == <<"h", "t", "t", "p", ":", "/", "/", "h">>
HeaderA == <<"A", ":", " ", "1">>
HeaderB == <<"B", ":", " ", "2">>
SomeData == <<"x", "=", "1">>
PathUrl == <<"h", "t", "t", "p", ":", "/", "/", "h", ":", "8", "1", "/", "p">>

\* the pieces a modelled command line is made of: a flag with its value, a
\* flag alone, an unsupported option, a flag whose value is missing (it then
\* takes the next argument, if any), a URL
OptGroups ==
  { <<ArgHelp>>, <<ArgInclude>>, <<ArgMethod, PUT>>, <<ArgMethod, DELETE>>,
    <<ArgData, SomeData>>, <<ArgData, <<>>>>, <<ArgHeader, HeaderA>>,
    <<ArgHeader, HeaderB, ArgHeader, HeaderA>>, <<<<"-", "z">>>>, <<ArgMethod>>,
    <<PlainUrl>>, <<PathUrl>> }

ArgLists == {Concat(g) : g \in SeqsUpTo(OptGroups, MaxGroups)}

\* a response without a declared length, and one with
CloseDelimited == CRLFCRLF \o <<"a">>
LengthDelimited ==
  <<"c", "o", "n", "t", "e", "n", "t", "-", "l", "e", "n", "g", "t", "h", ":", "1", "\r", "\n", "\r", "\n", "a", "b">>

\* header lines of the modelled responses
HeaderLines ==
  { <<"O", "K">>,
    <<"C", "o", "n", "t", "e", "n", "t", "-", "L", "e", "n", "g", "t", "h", ":", " ", "2">>,
    <<"c", "o", "n", "t", "e", "n", "t", "-", "l", "e", "n", "g", "t", "h", ":", "7">>,
    <<"C", "O", "N", "T", "E", "N", "T", "-", "L", "E", "N", "G", "T", "H", ":", "\t", "0", " ">>,
    <<"C", "o", "n", "t", "e", "n", "t", "-", "L", "e", "n", "g", "t", "h", ":", " ", "x">>,
    <<"C", "o", "n", "t", "e", "n", "t", "-", "L", "e", "n", "g", "t", "h", ":", " ", "1", ":", "9">>,
    <<"X", ":", "E9">> }

\* the bytes a peer sends after the header block are a prefix of this text
BodyText == <<"a", "\r", "\n", "\r", "\n", "E9", "b", "c", "d">>
Bodies == {TakeN(BodyText, Min(n, Len(BodyText))) : n \in 0..MaxBody}

\* header lines, each ended by CRLF
LineBlocks == {Concat([k \in 1..Len(ls) |-> ls[k] \o CRLF]) : ls \in SeqsUpTo(HeaderLines, MaxLines)}

\* a stream is a block of lines, then: the blank line and a body; or nothing;
\* or half a blank line; or the block without the CRLF of its last line
Streams ==
  UNION { {b \o CRLF \o body : body \in Bodies}
          \cup {b, b \o <<"\r">>, TakeN(b, IF Len(b) >= 2 THEN Len(b) - 2 ELSE 0)}
        : b \in LineBlocks }

\* URLs: scheme (possibly none), host (possibly empty), port part, path and
\* query, fragment
UrlSchemes == {HttpPrefix, HttpsPrefix, <<"f", "t", "p", ":", "/", "/">>, <<>>}
UrlHosts == {<<"h">>, <<"a", ".", "b">>, <<>>}
UrlPorts ==
  { <<>>, <<":", "8", "0">>, <<":", "4", "4", "3">>, <<":", "8", "0", "8", "0">>,
    <<":", "0", "8", "0">>, <<":", "+", "4", "4", "3">>, <<":">>, <<":", "x">>,
    <<":", "6", "5", "5", "3", "6">>, <<":", "0">> }
UrlPaths == {<<>>, <<"/">>, <<"/", "p", "?", "q">>, <<"/", "a", ":", "b">>}
UrlFragments == {<<>>, <<"#", "f">>, <<"#", "/", "f", ":", "1">>}
Urls ==
  { s \o h \o p \o q \o f :
      s \in UrlSchemes, h \in UrlHosts, p \in UrlPorts, q \in UrlPaths,
      f \in UrlFragments }

(***************************************************************************)
(* Specifications.                                                         *)
(***************************************************************************)
\* command lines of every shape against a fixed peer
InitArgs ==
  \/ \E a \in ArgLists : InitWith(a, CloseDelimited, TRUE)
  \/ InitWith(<<PlainUrl>>, LengthDelimited, TRUE)
SpecArgs == InitArgs /\ [][Next]_vars

\* responses of every shape, printed without and with the header block
InitReader ==
  \E a \in {<<PlainUrl>>, <<ArgInclude, PlainUrl>>} :
    \E p \in Streams : InitWith(a, p, TRUE)
SpecReader == InitReader /\ [][Next]_vars

\* URLs of every shape, with and without a request body
InitUrl ==
  \/ \E u \in Urls : InitWith(<<u>>, CloseDelimited, TRUE)
  \/ InitWith(<<ArgData, SomeData, PlainUrl>>, LengthDelimited, TRUE)
SpecUrl == InitUrl /\ [][Next]_vars

\* a few command lines (two of them malformed, one with a malformed URL)
\* against a few peers, some of which never close
Init ==
  \E a \in { <<PlainUrl>>, <<ArgInclude, PlainUrl>>, <<ArgHelp>>, <<>>,
             <<ArgData, SomeData, PlainUrl>>, <<PlainUrl, <<"-", "z">>>>,
             <<PlainUrl, ArgMethod>>, <<SomeData>> } :
    \E p \in { CloseDelimited, LengthDelimited, CRLF, TakeN(LengthDelimited, 21),
               TakeN(LengthDelimited, 20) } :
      \E c \in BOOLEAN : InitWith(a, p, c)
Spec == Init /\ [][Next]_vars

\* the step from the end of the header loop to the body reads (lines
\* 262-270, 279-281), seen through the control point alone: a computation
\* without I/O, which can always be taken
LeaveLen == pc = "len" /\ pc' \in {"body", "eof", "output"}

\* the same runs of a program that never idles: main is one sequential
\* thread, so whenever its next step can be taken (it is not inside a read
\* that blocks) it is taken; the fairness of the computation step is stated
\* on LeaveLen, which is enabled and taken exactly when ParseContentLength is
SpecLive ==
  Init /\ [][Next]_vars /\ WF_vars(pc # "len" /\ Next) /\ WF_pc(LeaveLen)

(***************************************************************************)
(* Properties of the response reader.  They are stated on the bytes the    *)
(* peer sent (peer) and on what the reader holds when body acquisition has *)
(* finished and nothing has been printed yet (pc = "output").              *)
(***************************************************************************)
\* the peer's bytes hold the header terminator
TermFound == Find(peer, CRLFCRLF) >= 0
\* the offset of the first byte after the first terminator
HeaderEnd == Find(peer, CRLFCRLF) + 4
\* the bytes the peer sent after the first terminator
AfterTerm == DropN(peer, HeaderEnd)

\* C1: when the header block declares Content-Length N and the peer closes
\* after only k < N bytes of body, body_bytes has length exactly k: the k
\* bytes received and nothing appended (and the reader reaches its end
\* without an error).
C1_TruncatedBodyIsWhatArrived ==
  (pc = "output" /\ TermFound /\ content_length >= 0
     /\ Len(AfterTerm) < content_length)
  => (Len(response_body) = Len(AfterTerm) /\ response_body = AfterTerm)

\* C2: when the header block declares Content-Length N and the peer sends at
\* least N bytes after the terminator, however the reads split them,
\* body_bytes is exactly the first N of those bytes and the reader has taken
\* no byte of the stream beyond them (N = 0: empty body, nothing taken).
C2_LengthDelimitedBody ==
  (pc = "output" /\ TermFound /\ content_length >= 0
     /\ Len(AfterTerm) >= content_length)
  => (response_body = TakeN(AfterTerm, content_length)
      /\ rpos = HeaderEnd + content_length)

\* C2 witness: a declared length of at least two is met by a peer that sent more
C2_Witness ==
  /\ pc = "output" /\ TermFound /\ content_length >= 2
  /\ Len(AfterTerm) > content_length /\ total_read = content_length

\* a header block holds no line that begins, case-insensitively, with
\* "content-length:"
NoLengthLine(block) ==
  \A k \in 1..Len(lines(block)) :
    ~StartsWith(to_lowercase(lines(block)[k]), ContentLengthPrefix)

\* C3: when the header block holds the terminator and no Content-Length line
\* (or none that declares a length), body_bytes is exactly all the bytes the
\* peer sent after the terminator up to its close: none lost, duplicated or
\* reordered.
C3_CloseDelimitedBody ==
  (pc = "output" /\ TermFound
     /\ (content_length = -1 \/ NoLengthLine(TakeN(peer, HeaderEnd))))
  => (response_body = AfterTerm /\ rpos = Len(peer))

\* C3 witness: a header block without a Content-Length line, then at least
\* three bytes of body
C3_Witness ==
  /\ pc = "output" /\ TermFound /\ NoLengthLine(TakeN(peer, HeaderEnd))
  /\ Len(AfterTerm) >= 3 /\ Len(response_body) >= 3

\* C4: whenever the header loop ends because the terminator was seen,
\* header_bytes is exactly the stream prefix up to and including the first
\* CRLFCRLF, it ends with CRLFCRLF, and no byte after the terminator has been
\* taken from the stream.
C4_HeaderIsStreamPrefix ==
  (pc = "len" /\ EndsWith(response_header, CRLFCRLF))
  => (TermFound /\ response_header = TakeN(peer, HeaderEnd) /\ rpos = HeaderEnd)

\* C5: when the peer closes before CRLFCRLF has been received, whatever the
\* partial header holds, body_bytes is empty and header_bytes is the bytes
\* received (and the reader reaches its end without an error).
C5_MissingTerminatorEmptyBody ==
  (pc = "output" /\ ~TermFound)
  => (response_body = <<>> /\ response_header = peer)

RECURSIVE FirstLengthLine(_)
\* the first line that begins with "content-length:", <<>> when there is none
FirstLengthLine(ls) ==
  IF ls = <<>> THEN <<>>
  ELSE IF StartsWith(to_lowercase(Head(ls)), ContentLengthPrefix) THEN Head(ls)
  ELSE FirstLengthLine(Tail(ls))

\* the declared length when only the first content-length line counts: its
\* trimmed value, none (-1) when there is no such line or its value is no number
FirstLineLength(hs) ==
  IF FirstLengthLine(lines(hs)) = <<>> THEN -1
  ELSE ParseUnsigned(trim(SplitColonNth1(FirstLengthLine(lines(hs)))), UsizeModelMax)

\* C6: parse_content_length considers only the first header line that begins
\* with "content-length:"; the declared length is that line's trimmed value
\* and every later content-length line is ignored, also when the first such
\* line's value is not a number (then no length is declared).
C6_OnlyFirstLengthLine ==
  (pc \in {"body", "eof", "output"})
  => content_length = FirstLineLength(response_header)

(***************************************************************************)
(* Properties of the command line.                                         *)
(***************************************************************************)
ValueFlags == {ArgHeader, ArgMethod, ArgData}
KnownFlags == {ArgHelp, ArgHeader, ArgMethod, ArgData, ArgInclude}

RECURSIVE HelpAsFlag(_)
\* -h occurs in the list as a flag: not as the value taken by -H, -X or -d
HelpAsFlag(as) ==
  IF as = <<>> THEN FALSE
  ELSE IF Head(as) = ArgHelp THEN TRUE
  ELSE IF Head(as) \in ValueFlags THEN HelpAsFlag(DropN(as, 2))
  ELSE HelpAsFlag(Tail(as))

RECURSIVE ScanClean(_)
\* the list holds, in flag position, no option other than -h, -H, -X, -d, -i,
\* and no -H, -X or -d without a value after it
ScanClean(as) ==
  IF as = <<>> THEN TRUE
  ELSE IF Head(as) \in ValueFlags THEN Len(as) >= 2 /\ ScanClean(DropN(as, 2))
  ELSE IF Head(as) \notin KnownFlags /\ StartsWith(Head(as), <<"-">>) THEN FALSE
  ELSE ScanClean(Tail(as))

\* C7 as claimed: whenever -h occurs as a flag, at any position and with any
\* other arguments around it, the run prints the usage text, exits 0 and does
\* no URL parsing, name resolution or connection.
C7_HelpWinsAlways ==
  (exit # "running" /\ HelpAsFlag(args))
  => (exit = "success" /\ out = Usage /\ did = {})

\* C7 amended: when -h occurs as a flag and the scan of the list meets no
\* unsupported option and no -H, -X or -d without a value, the run prints the
\* usage text, exits 0 and does no URL parsing, name resolution or connection;
\* when the scan meets such an argument the run exits non-zero with nothing on
\* standard output, again without URL parsing, name resolution or connection.
C7_HelpWinsWhenScanClean ==
  (exit # "running" /\ HelpAsFlag(args))
  => /\ did = {}
     /\ ScanClean(args) => (exit = "success" /\ out = Usage)
     /\ ~ScanClean(args) => (exit = "failure" /\ out = <<>>)

\* C7 witness: help shown for a list that names a URL before the -h
C7_Witness ==
  /\ exit = "success" /\ out = Usage /\ Len(args) >= 2
  /\ args[Len(args)] = ArgHelp
  /\ \E k \in 1..Len(args) : args[k] = PlainUrl

RECURSIVE HasOption(_, _)
\* flag f occurs in flag position with a value
HasOption(as, f) ==
  IF Len(as) < 2 THEN FALSE
  ELSE IF Head(as) = f THEN TRUE
  ELSE IF Head(as) \in ValueFlags THEN HasOption(DropN(as, 2), f)
  ELSE HasOption(Tail(as), f)

RECURSIVE LastValue(_, _, _)
\* the value of the last occurrence of flag f in flag position, d when none
LastValue(as, f, d) ==
  IF Len(as) < 2 THEN d
  ELSE IF Head(as) \in ValueFlags
       THEN LastValue(DropN(as, 2), f, IF Head(as) = f THEN as[2] ELSE d)
  ELSE LastValue(Tail(as), f, d)

\* the method the law prescribes for a command line
LawMethod(as) ==
  IF HasOption(as, ArgMethod) THEN LastValue(as, ArgMethod, <<>>)
  ELSE IF LastValue(as, ArgData, <<>>) # <<>> THEN POST
  ELSE GET

\* C8: after parsing any sequence of arguments, the effective method is the
\* value of the last -X if any -X was given; otherwise POST if the final -d
\* data is non-empty; otherwise GET.
C8_MethodDefaultLaw ==
  (pc \notin {"args", "done"}) => method = LawMethod(args)

\* C8 witness: -d with data first, -X PUT after it, and the request about to
\* be written with PUT
C8_Witness ==
  /\ pc = "write" /\ method = PUT /\ data = SomeData
  /\ Len(args) >= 4 /\ args[1] = ArgData /\ args[3] = ArgMethod

(***************************************************************************)
(* Properties of the request written.                                      *)
(***************************************************************************)
RequestLineOf(m, pq) ==
  m \o <<" ">> \o pq \o <<" ", "H", "T", "T", "P", "/", "1", ".", "1">>

\* C9: the Host header written is "Host: {host}" when the port, as a number,
\* is 80 or 443, whatever the scheme, and "Host: {host}:{port}" for every
\* other port.
C9_PortOmittedByNumber ==
  (pc = "hdr")
  => StartsWith(wire,
       RequestLineOf(method, path_query) \o CRLF
       \o <<"H", "o", "s", "t", ":", " ">>
       \o (IF ParseUnsigned(port, U16Max) \in {80, 443} THEN host
           ELSE host \o <<":">> \o port)
       \o CRLF)

\* the lines of the request head, in order, without their CRLF
ExpectedHeadLines ==
  << RequestLineOf(method, path_query),
     <<"H", "o", "s", "t", ":", " ">> \o HostHeader(host, port),
     <<"U", "s", "e", "r", "-", "A", "g", "e", "n", "t", ":", " ", "c", "u", "r", "l", "/", "1", ".", "0">>,
     <<"A", "c", "c", "e", "p", "t", ":", " ", "*", "/", "*">> >>
  \o headers
  \o (IF Len(data) > 0
      THEN << <<"C", "o", "n", "t", "e", "n", "t", "-", "L", "e", "n", "g", "t", "h", ":", " ">>
              \o ToDec(Len(data)) >>
      ELSE <<>>)
  \o << <<>> >>

\* C10: the bytes written to the stream are exactly the request line, the
\* Host header, the User-Agent header, "Accept: */*", every caller-supplied
\* header line in input order, a Content-Length line with the byte length of
\* the body if and only if the body is non-empty, each followed by CRLF, then
\* one bare CRLF, then the body unchanged.
C10_RequestFraming ==
  (pc = "hdr")
  => wire = Concat([k \in 1..Len(ExpectedHeadLines) |-> ExpectedHeadLines[k] \o CRLF])
            \o data

\* C10 witness: a request with two different custom headers and a body
C10_Witness ==
  /\ pc = "hdr" /\ Len(headers) = 2 /\ headers[1] # headers[2]
  /\ data = SomeData

(***************************************************************************)
(* Properties of parse_url.  They are stated on the URL argument (url) and *)
(* on what parse_url returned for it (host, port, path_query), which main  *)
(* holds from the end of URL parsing on (pc = "dns" and later).            *)
(***************************************************************************)
\* the URL after its scheme prefix
AfterScheme(u) == IF StartsWith(u, HttpsPrefix) THEN DropN(u, 8) ELSE DropN(u, 7)
\* the offset of the first element of s that is in cs, Len(s) when there is none
FirstOf(s, cs) ==
  IF \E k \in 1..Len(s) : s[k] \in cs
  THEN (CHOOSE k \in 1..Len(s) :
          s[k] \in cs /\ \A j \in 1..(k - 1) : ~(s[j] \in cs)) - 1
  ELSE Len(s)
\* the number a port text stands for
PortNumber(p) == ParseUnsigned(p, U16Max)

\* C11: for every accepted URL of the form scheme://host[:port][/path] (no
\* fragment), the returned host is the text between the scheme prefix and
\* the first ':' or '/', the returned port has the numeric value of the
\* explicit port or else the scheme default (443 for https, 80 for http),
\* and path_query is never empty: it starts with '/', is the URL from its
\* first '/' after the scheme on, and is exactly "/" when there is no path.
C11_UrlDecomposition ==
  (pc = "dns" /\ Find(url, <<"#">>) = -1)
  => LET rest == AfterScheme(url)
         host_end == FirstOf(rest, {":", "/"})
         path_start == FirstOf(rest, {"/"})
         explicit == host_end < Len(rest) /\ rest[host_end + 1] = ":"
     IN /\ host = TakeN(rest, host_end)
        /\ explicit =>
             /\ PortNumber(port) >= 0
             /\ PortNumber(port)
                  = PortNumber(SubSeq(rest, host_end + 2, path_start))
        /\ ~explicit =>
             PortNumber(port) = IF StartsWith(url, HttpsPrefix) THEN 443 ELSE 80
        /\ path_query # <<>> /\ Head(path_query) = "/"
        /\ path_query = IF path_start = Len(rest) THEN <<"/">>
                        ELSE DropN(rest, path_start)

\* C11 witness: an https URL with a dotted host, an explicit port and a path
\* has been parsed
C11_Witness ==
  /\ pc = "dns"
  /\ url = HttpsPrefix \o <<"a", ".", "b", ":", "8", "0", "8", "0", "/", "p", "?", "q">>
  /\ host = <<"a", ".", "b">> /\ PortNumber(port) = 8080

\* the URL a command line of SpecUrl names: its last argument
TargetUrl == args[Len(args)]
\* the host[:port] part: after the scheme, before the first '#', before the
\* first '/'
Authority(u) ==
  LET rest == AfterScheme(u)
      without_fragment == TakeN(rest, FirstOf(rest, {"#"}))
  IN TakeN(without_fragment, FirstOf(without_fragment, {"/"}))
\* the condition under which a URL is to be rejected
MustReject(u) ==
  \/ ~(StartsWith(u, HttpPrefix) \/ StartsWith(u, HttpsPrefix))
  \/ LET a == Authority(u)
     IN /\ \E k \in 1..Len(a) : a[k] = ":"
        /\ PortNumber(DropN(a, FirstOf(a, {":"}) + 1)) = -1

\* C12: parse_url fails exactly when the URL does not begin with the
\* literal "http://" or "https://", or its host[:port] part holds a ':' and
\* the text after the first ':' does not parse as a u16; and when it fails
\* the run ends with a non-zero status, the URL diagnostic, and neither a
\* name resolution nor a connection.
C12_UrlRejection ==
  /\ (pc = "dns" => ~MustReject(url))
  /\ ("parse_url" \in did /\ ~MustReject(TargetUrl)) => diag = <<>> \/ diag[1] # "url"
  /\ ("parse_url" \in did /\ MustReject(TargetUrl))
       => /\ pc = "done" /\ exit = "failure" /\ diag = <<"url">>
          /\ did = {"parse_url"} /\ wire = <<>> /\ rpos = 0

\* C12 witness: an http URL whose port is out of the u16 range was rejected
C12_Witness ==
  /\ pc = "done" /\ exit = "failure" /\ did = {"parse_url"}
  /\ TargetUrl = HttpPrefix \o <<"h", ":", "6", "5", "5", "3", "6", "/", "p", "?", "q">>

(***************************************************************************)
(* Properties of the command line as a whole.                              *)
(***************************************************************************)
RECURSIVE PositionalCount(_)
\* the number of positional arguments: arguments in flag position that do
\* not start with '-'
PositionalCount(as) ==
  IF as = <<>> THEN 0
  ELSE IF Head(as) \in ValueFlags THEN PositionalCount(DropN(as, 2))
  ELSE IF StartsWith(Head(as), <<"-">>) THEN PositionalCount(Tail(as))
  ELSE 1 + PositionalCount(Tail(as))

RECURSIVE HasUnknownOption(_)
\* some argument in flag position starts with '-' and is none of -h, -H, -X,
\* -d, -i
HasUnknownOption(as) ==
  IF as = <<>> THEN FALSE
  ELSE IF Head(as) \in ValueFlags THEN HasUnknownOption(DropN(as, 2))
  ELSE IF Head(as) \notin KnownFlags /\ StartsWith(Head(as), <<"-">>) THEN TRUE
  ELSE HasUnknownOption(Tail(as))

\* C13: every argument list without -h that has no positional argument, or
\* more than one positional argument, or an unsupported option in flag
\* position, is rejected: the run ends with a non-zero status and performs
\* no name resolution, connection, write or read.
C13_ExactlyOneUrl ==
  (~HelpAsFlag(args)
     /\ (PositionalCount(args) # 1 \/ HasUnknownOption(args)))
  => /\ did \cap {"resolve", "connect", "write", "read"} = {}
     /\ exit # "success"

(***************************************************************************)
(* Properties of the run as a sequence of stages.                          *)
(***************************************************************************)
\* the position of a control point in the order of the stages: argument
\* parsing, URL parsing, resolution, connect, write, read headers, read
\* body, output, end
StageRank(p) ==
  CASE p \in {"args", "parsed"} -> 1
    [] p = "url" -> 2
    [] p = "dns" -> 3
    [] p = "connect" -> 4
    [] p = "write" -> 5
    [] p \in {"hdr", "len"} -> 6
    [] p \in {"body", "eof"} -> 7
    [] p = "output" -> 8
    [] p = "done" -> 9

\* the external operations a run has performed when it fails with a diagnostic
DoneWhenFailing(msg) ==
  CASE msg \in {"option_needs_value", "unsupported_option", "no_url"} -> {}
    [] msg = "url" -> {"parse_url"}
    [] msg \in {"dns_empty", "dns_error"} -> {"parse_url", "resolve"}
    [] msg = "connect" -> {"parse_url", "resolve", "connect"}
    [] msg = "write" -> {"parse_url", "resolve", "connect", "write"}
    [] msg \in {"read_header", "read_body"}
         -> {"parse_url", "resolve", "connect", "write", "read"}

\* C14: the stages are passed in the fixed order and none is entered again;
\* a stage other than the three loops (arguments, header bytes, body reads)
\* is left by every step; a failure at any stage (its diagnostic is written)
\* ends the run at once with a non-zero status, exactly the stages up to the
\* failing one having run, nothing read or written by the failing step
\* beyond a partial write; a run fails only with a diagnostic, succeeds only
\* from the help branch or the output stage, and takes no step after its end.
C14_FailStop ==
  [][ /\ pc # "done"
      /\ StageRank(pc') >= StageRank(pc)
      /\ (StageRank(pc') = StageRank(pc) /\ pc \notin {"args", "hdr", "body", "eof"})
           => pc' # pc
      /\ diag' # diag
           => /\ diag = <<>> /\ Len(diag') = 1
              /\ pc' = "done" /\ exit' = "failure"
              /\ did' = DoneWhenFailing(diag'[1])
              /\ wire' = wire \/ diag'[1] = "write"
              /\ rpos' = rpos
      /\ exit' = "failure" => diag' # diag
      /\ exit' = "success" => pc' = "done" /\ diag' = <<>> /\ pc \in {"parsed", "output"}
    ]_vars

\* C14 witness: a read error in the body stage, after part of the response
\* arrived, has ended the run
C14_Witness ==
  /\ pc = "done" /\ exit = "failure" /\ diag = <<"read_body">> /\ rpos > 0

(***************************************************************************)
(* Properties of what the run prints.                                      *)
(***************************************************************************)
\* the peer closed before the header terminator, or before the body length
\* the reader took from the header block had arrived
ClosedEarly ==
  /\ peer_closes /\ rpos = Len(peer)
  /\ ~TermFound \/ (content_length >= 0 /\ Len(AfterTerm) < content_length)

\* C15: when the stream closes (end of data, no I/O error) before the header
\* terminator or before the declared body length has been received, the run
\* still writes the bytes received so far (decoded and selected as for any
\* response) to standard output and exits 0.
C15_PartialResponsePrinted ==
  [][ (pc = "output" /\ ClosedEarly)
      => /\ exit' = "success"
         /\ out' = Printed(from_utf8_lossy(peer), include_headers) ]_vars

\* the exit status alone: a response cut short is never an error
C15_PartialResponseExitsZero ==
  [][ (pc = "output" /\ ClosedEarly) => (exit' = "success" /\ diag' = <<>>) ]_vars

\* what the output step is to print when the selection works on text
\* produced from the bytes by the conversion conv
Selected(conv(_)) ==
  LET all == response_header \o response_body
      at == Find(all, CRLFCRLF)
  IN IF include_headers \/ at = -1 THEN conv(all)
     ELSE conv(DropN(all, at + 4))
\* no conversion
Verbatim(bs) == bs

\* C16 as claimed: with include-headers set the output is header_bytes
\* followed by body_bytes in full; unset, it is exactly what follows the
\* first CRLFCRLF of the concatenation (body_bytes when the header
\* terminator was found, also when the body holds CRLFCRLF), and the whole
\* concatenation when it holds no CRLFCRLF: the bytes themselves.
C16_OutputIsTheBytes ==
  [][ pc = "output"
      => /\ out' = out \o Selected(Verbatim)
         /\ (~include_headers /\ EndsWith(response_header, CRLFCRLF))
              => out' = out \o response_body ]_vars

\* C16 amended: the same selection, of the lossy UTF-8 decoding of the
\* bytes (every invalid sequence replaced by U+FFFD): the decoded
\* concatenation with include-headers set; unset, the decoding of what
\* follows the first CRLFCRLF (of body_bytes when the header terminator was
\* found, also when the body holds CRLFCRLF), and the decoded concatenation
\* when there is no CRLFCRLF.
C16_OutputIsTheDecodedBytes ==
  [][ pc = "output"
      => /\ out' = out \o Selected(from_utf8_lossy)
         /\ (~include_headers /\ EndsWith(response_header, CRLFCRLF))
              => out' = out \o from_utf8_lossy(response_body) ]_vars

\* C16 witness: without -i, a body that holds CRLFCRLF and an invalid byte
\* has been printed after its header block was cut off
C16_Witness ==
  /\ pc = "done" /\ exit = "success" /\ args = <<PlainUrl>>
  /\ TermFound /\ HeaderEnd > 4
  /\ Find(out, CRLFCRLF) >= 0 /\ Find(out, Replacement) >= 0
  /\ Len(out) = Len(AfterTerm) + 2

(***************************************************************************)
(* Properties of the exchange on the stream.                               *)
(***************************************************************************)
\* C17: a run opens at most one connection and writes at most one request;
\* every byte of the request is on the stream before the first byte of the
\* response is read, every header byte is read before the first body byte,
\* and nothing is written once reading has started.
C17_SingleExchange ==
  [][ /\ "connect" \in did => pc' # "connect"
      /\ "write" \in did => (pc' # "write" /\ wire' = wire)
      /\ wire' # wire => (wire = <<>> /\ rpos = 0 /\ "read" \notin did)
      /\ ("read" \in did' \/ rpos' # rpos)
           => /\ wire' = wire
              /\ pc' # "done"
                   => wire = BuildRequest(method, host, port, path_query, data, headers)
      /\ response_header' # response_header
           => (pc' = "done" \/ (response_body = <<>> /\ total_read = 0 /\ pc = "hdr"))
      /\ (response_body' # response_body \/ total_read' # total_read)
           => (pc' = "done" \/ response_header' = response_header)
      /\ pc \in {"body", "eof", "output"} => pc' \notin {"hdr", "len"}
    ]_vars

\* C17 witness: a whole exchange has taken place, a request with a body
\* written, the header block and the declared byte of body read
C17_Witness ==
  /\ pc = "output" /\ Len(wire) > 0 /\ EndsWith(wire, SomeData)
  /\ Len(response_header) = 20
  /\ rpos = Len(response_header) + 1 /\ Len(response_body) = 1
  /\ did = {"parse_url", "resolve", "connect", "write", "read"}

(***************************************************************************)
(* Properties of the fragment.                                             *)
(***************************************************************************)
\* a URL up to, not including, its first '#'
BeforeFragment(u) == TakeN(u, FirstOf(u, {"#"}))

\* C18: for every accepted URL, host, port and path_query hold no '#' and
\* are what the URL cut before its first '#' yields, so nothing from the '#'
\* onward is in them; a '#' before the first '/' after the scheme yields
\* path_query "/"; and the bytes written to the stream (request line and
\* Host header included) are those of the request for the cut URL and hold
\* no '#'.
C18_FragmentNeverSent ==
  /\ Find(wire, <<"#">>) = -1
  /\ pc \in {"dns", "connect", "write", "hdr"}
       => LET cut == parse_url(BeforeFragment(url))
          IN /\ Find(host, <<"#">>) = -1 /\ Find(port, <<"#">>) = -1
             /\ Find(path_query, <<"#">>) = -1
             /\ cut.ok /\ host = cut.host /\ port = cut.port
             /\ path_query = cut.path_query
             /\ Find(AfterScheme(BeforeFragment(url)), <<"/">>) = -1
                  => path_query = <<"/">>
             /\ pc = "hdr"
                  => wire = BuildRequest(method, cut.host, cut.port, cut.path_query,
                                         data, headers)

\* C18 witness: the request for a URL whose fragment holds '/' and ':' and
\* starts before any '/' has been written
C18_Witness ==
  /\ pc = "hdr" /\ Len(wire) > 0
  /\ url = HttpsPrefix \o <<"a", ".", "b", ":", "8", "0", "8", "0", "#", "/", "f", ":", "1">>
  /\ path_query = <<"/">>

(***************************************************************************)
(* Termination of the reader.                                              *)
(***************************************************************************)
\* the length the reader takes from the peer's header block once it has
\* read it (-1: none)
LengthSeenByReader ==
  parse_content_length(Concat([k \in 1..HeaderEnd |-> PushByteAsChar(peer[k])]))
\* the peer sends a complete header block that declares a length, and at
\* least that many bytes after it
LengthMet ==
  TermFound /\ LengthSeenByReader >= 0 /\ Len(AfterTerm) >= LengthSeenByReader
\* the reader is inside a read that cannot return: everything the peer
\* sends has been taken and the peer keeps the stream open
ReaderBlocked ==
  ~peer_closes /\ pc \in {"hdr", "body", "eof"} /\ rpos = Len(peer)

\* C19: when the stream delivers a complete header block declaring
\* Content-Length N and then at least N bytes, a run that has sent its
\* request eventually ends, by the output step unless a read fails, even if
\* the peer never closes; when the peer never closes and no length is
\* declared or met (or the header block never terminates) the run never
\* reaches the output step, and a reader that has taken everything such a
\* peer sent can take no step at all: it is blocked for ever.
C19_TerminationWithoutClose ==
  /\ (pc = "hdr" /\ LengthMet)
       ~> (pc = "done"
           /\ (exit = "success" \/ diag \in {<<"read_header">>, <<"read_body">>}))
  /\ []((~peer_closes /\ ~LengthMet)
          => (pc # "output" /\ ~(exit = "success" /\ "read" \in did)))
  /\ [](ReaderBlocked => ~ENABLED Next)

\* C19 witness: a run has printed a length-delimited response and ended
\* while the peer, which sent more than the declared length, stays open
C19_Witness ==
  /\ pc = "done" /\ exit = "success" /\ ~peer_closes /\ "read" \in did
  /\ LengthMet /\ rpos < Len(peer) /\ out = <<"a">>

(***************************************************************************)
(* All-or-nothing output.                                                  *)
(***************************************************************************)
\* C20: nothing is on standard output while the run is between URL parsing
\* and the end of the body phase; whatever is printed after a read is
\* printed by the output step of a run that then exits 0; and a run that a
\* read error ended, in the header or the body phase, exits non-zero with
\* nothing on standard output, whatever part of the response it had read.
C20_AllOrNothingOutput ==
  /\ pc \in {"url", "dns", "connect", "write", "hdr", "len", "body", "eof", "output"}
       => out = <<>>
  /\ ("read" \in did /\ out # <<>>) => (pc = "done" /\ exit = "success" /\ diag = <<>>)
  /\ (diag # <<>> /\ diag[1] \in {"read_header", "read_body"})
       => (pc = "done" /\ exit = "failure" /\ out = <<>>)

\* C20 witness: a read error after the header block and two bytes of a
\* longer declared body ended the run with nothing printed
C20_Witness ==
  /\ pc = "done" /\ exit = "failure" /\ diag = <<"read_body">>
  /\ TermFound /\ FirstLineLength(TakeN(peer, HeaderEnd)) = 7
  /\ rpos = HeaderEnd + 2 /\ out = <<>>

====
